---- MODULE Spec2Model ----
(***************************************************************************)
(* Model of mxfusion/inference/batch_inference_loop_lbfgs.py:              *)
(*   ParameterToArrayConverter  - the mapping between a gluon              *)
(*                                ParameterDict and one flat array;        *)
(*   BatchInferenceLoopLBFGS.run - the L-BFGS loop and its f_df closure.   *)
(*                                                                         *)
(* Numbers.  Array elements are integers standing for the floating-point   *)
(* numbers of the same value.  A conversion to float32 keeps 24            *)
(* significant bits (round to nearest, ties to even); a conversion to      *)
(* float64 keeps 53, which is every integer the model can hold.            *)
(*                                                                         *)
(* Arrays.  An NDArray is a record [shape, dtype, ctx, data] whose data is *)
(* the row-major flattening of its content; reshape keeps data and changes *)
(* shape.  A numpy vector is the sequence of its elements.  Python index   *)
(* ranges [a:b] are 0-based and half-open, as in the source.               *)
(***************************************************************************)
EXTENDS Integers, Sequences, FiniteSets, TLC

VARIABLES
    params,     \* the ParameterDict: a sequence of gluon Parameters, in iteration order
    params0,    \* the ParameterDict as it was when the converter was constructed
    conv,       \* the ParameterToArrayConverter's fields (NoConverter before / without one)
    pc,         \* control position of the caller
    op,         \* the operation performed last
    arg,        \* the flat array given to the operation performed last (<<>> if none)
    ret,        \* the flat array returned by the operation performed last (<<>> if none)
    err,        \* the exception raised by the operation performed last ("none" if none)
    written,    \* the flat array installed last by set_values_from_array and not
                \* overwritten since by anything else (NoArray if there is none)
    calls,      \* number of f_df invocations started by the optimizer
    best,       \* the optimizer's current best point (<<>> before it starts)
    x_opt,      \* the point returned by the optimizer (NoArray until it returns)
    valuesFor,  \* the f_df invocation whose x the parameter values were installed from
    gradFor     \* the f_df invocation whose backward pass filled the gradient slots

vars == <<params, params0, conv, pc, op, arg, ret, err, written, calls, best, x_opt,
          valuesFor, gradFor>>

(***************************************************************************)
(* Bounds of the exploration.                                              *)
(***************************************************************************)
MaxParams == 3      \* most parameters in a collection
MaxLen == 3         \* most trainable elements in a collection
MaxCalls == 2       \* most f_df invocations in one run

(***************************************************************************)
(* Element values: 2^24 + 1 is the smallest positive integer that float32  *)
(* cannot hold.                                                            *)
(***************************************************************************)
Values == {1, 2^24 + 1}

\* 1, 2, 3, ...: an array of n different elements that float32 holds.
Ramp(n) == [j \in 1..n |-> j]

\* 2^24 + 1, 2^24 + 2, ...: different elements, some of which float32 cannot hold.
BigRamp(n) == [j \in 1..n |-> 2^24 + j]

Names == <<"a", "b", "c", "d", "e">>

\* An array that may be missing: <<>> if it is, <<x>> if it is x.
NoArray == <<>>
Some(x) == <<x>>
NoConverter == [built |-> FALSE]

(***************************************************************************)
(* Numeric conversions.                                                    *)
(***************************************************************************)
Abs(n) == IF n < 0 THEN -n ELSE n

\* The spacing of the floating-point numbers with p significant bits around
\* the magnitude m: the least power of two u with m / u < 2^p.
RECURSIVE Ulp(_, _, _)
Ulp(m, p, u) == IF (m \div u) < 2^p THEN u ELSE Ulp(m, p, 2 * u)

\* m rounded to the nearest multiple of u, a tie going to the even multiple.
RoundHalfEven(m, u) ==
    LET q == m \div u
        r == m % u
    IN  IF 2 * r < u THEN q * u
        ELSE IF 2 * r > u THEN (q + 1) * u
        ELSE IF q % 2 = 0 THEN q * u
        ELSE (q + 1) * u

ToFloat32(n) ==
    LET m == Abs(n)
        r == RoundHalfEven(m, Ulp(m, 24, 1))
    IN  IF n < 0 THEN -r ELSE r

\* numpy / mxnet conversion of one element to dtype.
AsType(n, dtype) == IF dtype = "float32" THEN ToFloat32(n) ELSE n

AsTypeSeq(s, dtype) == [j \in 1..Len(s) |-> AsType(s[j], dtype)]

RECURSIVE Size(_)
Size(shape) == IF shape = <<>> THEN 1 ELSE Head(shape) * Size(Tail(shape))

Zeros(n) == [j \in 1..n |-> 0]

\* Python's x[a:b] for 0 <= a <= b <= len(x).
Slice(x, a, b) == SubSeq(x, a + 1, b)

\* Python's x[a:b] = vals, len(vals) = b - a.
SliceAssign(x, a, b, vals) ==
    [j \in 1..Len(x) |-> IF a < j /\ j <= b THEN vals[j - a] ELSE x[j]]

RECURSIVE SeqsOver(_, _)
SeqsOver(S, n) ==
    IF n = 0 THEN {<<>>}
    ELSE {Append(s, v) : s \in SeqsOver(S, n - 1), v \in S}

(***************************************************************************)
(* The collaborators: mxnet NDArray and gluon Parameter.                   *)
(***************************************************************************)
\* Mutant of NDArrayOf: dtype is not passed on, the array is float32.
NDArrayOfDefaultType(source, dtype, ctx) ==
    [shape |-> <<Len(source)>>, dtype |-> "float32", ctx |-> ctx,
     data |-> AsTypeSeq(source, "float32")]

\* mx.nd.array(source, dtype=dtype, ctx=ctx) of a numpy vector.
NDArrayOf(source, dtype, ctx) ==
    [shape |-> <<Len(source)>>, dtype |-> dtype, ctx |-> ctx,
     data |-> AsTypeSeq(source, dtype)]

\* mx.nd.zeros(n): float32 on the default context.
NDZeros(n) ==
    [shape |-> <<n>>, dtype |-> "float32", ctx |-> "cpu(0)", data |-> Zeros(n)]

\* mx.nd.reshape(nd, shape) and nd.reshape((-1,)).
Reshape(nd, shape) == [nd EXCEPT !.shape = shape]
Flatten(nd) == [nd EXCEPT !.shape = <<Len(nd.data)>>]

\* x[a:b] = nd for NDArrays: the elements are converted to x's dtype.
NDSliceAssign(x, a, b, nd) ==
    [x EXCEPT !.data = SliceAssign(@, a, b, AsTypeSeq(nd.data, x.dtype))]

\* Parameter.data(): the parameter's array.
Data(val) ==
    [shape |-> val.shape, dtype |-> val.dtype, ctx |-> val.ctx, data |-> val.data]

\* Mutant of Grad: the array itself is read, not its gradient buffer.
GradReadsData(val) ==
    [shape |-> val.shape, dtype |-> val.dtype, ctx |-> val.ctx, data |-> val.data]

\* Parameter.data().grad: the gradient buffer attached to the array.
Grad(val) ==
    [shape |-> val.shape, dtype |-> val.dtype, ctx |-> val.ctx, data |-> val.grad]

\* Parameter.set_data(nd): the shape is taken from nd and nd's elements are
\* copied into the parameter's own array (its dtype and context).
SetData(val, nd) ==
    [val EXCEPT !.shape = nd.shape, !.data = AsTypeSeq(nd.data, val.dtype)]

\* parameter_dict[key]: position of the parameter stored under key.
Lookup(pd, key) == CHOOSE k \in 1..Len(pd) : pd[k].name = key

(***************************************************************************)
(* ParameterToArrayConverter.                                              *)
(***************************************************************************)
EmptyTable ==
    [i_start |-> <<>>, i_end |-> <<>>, shapes |-> <<>>, dtypes |-> <<>>,
     contexts |-> <<>>, names |-> <<>>]

\* Mutant of IsFixed: no parameter is taken for fixed.
IsFixedNever(val) == FALSE

\* if val.grad_req == 'null': the parameter has been fixed.
IsFixed(val) == val.grad_req = "null"

\* Mutant of NextOffset: the offset advances by one per parameter.
NextOffsetByOne(i, size) == i + 1

\* i += val.data().size
NextOffset(i, size) == i + size

\* The loop of _get_parameter_sizes from the k-th item on, i being the
\* running offset and t the lists filled so far.
RECURSIVE ParameterSizesLoop(_, _, _, _)
ParameterSizesLoop(pd, k, i, t) ==
    IF k > Len(pd) THEN t
    ELSE IF IsFixed(pd[k]) THEN ParameterSizesLoop(pd, k + 1, i, t)
    ELSE LET data == Data(pd[k])
             size == Size(data.shape)
         IN  ParameterSizesLoop(pd, k + 1, NextOffset(i, size),
                 [i_start  |-> Append(t.i_start, i),
                  i_end    |-> Append(t.i_end, i + size),
                  shapes   |-> Append(t.shapes, data.shape),
                  dtypes   |-> Append(t.dtypes, data.dtype),
                  contexts |-> Append(t.contexts, data.ctx),
                  names    |-> Append(t.names, pd[k].name)])

_get_parameter_sizes(pd) == ParameterSizesLoop(pd, 1, 0, EmptyTable)

\* __init__: the converter, or the exception it raises.  i_end[-1] of an
\* empty list is an IndexError.
NewConverter(pd) ==
    LET t == _get_parameter_sizes(pd)
    IN  IF Len(t.i_end) = 0
        THEN [raised |-> "IndexError", self |-> NoConverter]
        ELSE [raised |-> "none",
              self |-> [built |-> TRUE,
                        i_start |-> t.i_start, i_end |-> t.i_end,
                        shapes |-> t.shapes, dtypes |-> t.dtypes,
                        contexts |-> t.contexts, names |-> t.names,
                        array_length |-> t.i_end[Len(t.i_end)]]]

\* Mutant of ValueToSetTo: every record is cut from the start of x.
ValueToSetToFromStart(self, x, i) ==
    Reshape(NDArrayOf(Slice(x, 0, self.i_end[i] - self.i_start[i]),
                      self.dtypes[i], self.contexts[i]),
            self.shapes[i])

\* The array built for record i from the flat array x.
ValueToSetTo(self, x, i) ==
    Reshape(NDArrayOf(Slice(x, self.i_start[i], self.i_end[i]),
                      self.dtypes[i], self.contexts[i]),
            self.shapes[i])

\* The loop of set_values_from_array from record i on.
RECURSIVE SetValuesLoop(_, _, _, _)
SetValuesLoop(pd, self, x, i) ==
    IF i > Len(self.names) THEN pd
    ELSE LET k == Lookup(pd, self.names[i])
         IN  SetValuesLoop([pd EXCEPT ![k] = SetData(pd[k], ValueToSetTo(self, x, i))],
                           self, x, i + 1)

\* Mutant of set_values_from_array: only a short array is refused, the tail
\* of a long one is dropped.
SetValuesRefusingShortOnly(pd, self, x) ==
    IF Len(x) < self.array_length
    THEN [raised |-> "ValueError", pd |-> pd]
    ELSE [raised |-> "none", pd |-> SetValuesLoop(pd, self, x, 1)]

\* set_values_from_array(x): the exception raised and the ParameterDict left.
set_values_from_array(pd, self, x) ==
    IF Len(x) # self.array_length
    THEN [raised |-> "ValueError", pd |-> pd]
    ELSE [raised |-> "none", pd |-> SetValuesLoop(pd, self, x, 1)]

\* The loop of extract_parameter_values_as_array from record i on.
RECURSIVE ExtractValuesLoop(_, _, _, _)
ExtractValuesLoop(pd, self, x, i) ==
    IF i > Len(self.names) THEN x
    ELSE LET val == pd[Lookup(pd, self.names[i])]
         IN  ExtractValuesLoop(pd, self,
                 NDSliceAssign(x, self.i_start[i], self.i_end[i], Flatten(Data(val))),
                 i + 1)

\* extract_parameter_values_as_array(): x.asnumpy().
extract_parameter_values_as_array(pd, self) ==
    ExtractValuesLoop(pd, self, NDZeros(self.array_length), 1).data

\* The loop of extract_parameter_gradients_as_array from record i on.
RECURSIVE ExtractGradientsLoop(_, _, _, _)
ExtractGradientsLoop(pd, self, x, i) ==
    IF i > Len(self.names) THEN x
    ELSE LET val == pd[Lookup(pd, self.names[i])]
         IN  ExtractGradientsLoop(pd, self,
                 NDSliceAssign(x, self.i_start[i], self.i_end[i], Flatten(Grad(val))),
                 i + 1)

\* Mutant of extract_parameter_gradients_as_array: the buffer has one
\* element per record.
ExtractGradientsIntoShortBuffer(pd, self) ==
    ExtractGradientsLoop(pd, self, NDZeros(Len(self.names)), 1).data

\* extract_parameter_gradients_as_array(): x.asnumpy().
extract_parameter_gradients_as_array(pd, self) ==
    ExtractGradientsLoop(pd, self, NDZeros(self.array_length), 1).data

(***************************************************************************)
(* The collections explored.  A parameter is                               *)
(*   [name, grad_req, shape, dtype, ctx, data, grad];                      *)
(* a parameter with grad_req "null" has no gradient buffer (grad = <<>>).  *)
(***************************************************************************)
ParamKinds ==
    { [grad_req |-> "write", shape |-> <<2>>,    dtype |-> "float32", ctx |-> "cpu(0)"],
      [grad_req |-> "write", shape |-> <<1, 1>>, dtype |-> "float64", ctx |-> "gpu(0)"],
      [grad_req |-> "null",  shape |-> <<3>>,    dtype |-> "float32", ctx |-> "cpu(0)"] }

\* A parameter of kind kd stored under name, every element initialised to fill.
NewParameter(name, kd, fill) ==
    [name |-> name, grad_req |-> kd.grad_req, shape |-> kd.shape,
     dtype |-> kd.dtype, ctx |-> kd.ctx,
     data |-> [j \in 1..Size(kd.shape) |-> AsType(fill, kd.dtype)],
     grad |-> IF kd.grad_req = "null" THEN <<>> ELSE Zeros(Size(kd.shape))]

IsTrainable(val) == val.grad_req # "null"

RECURSIVE TrainableSize(_)
TrainableSize(pd) ==
    IF pd = <<>> THEN 0
    ELSE (IF IsTrainable(Head(pd)) THEN Size(Head(pd).shape) ELSE 0)
         + TrainableSize(Tail(pd))

Collections(fills) ==
    { pd \in UNION { { [k \in 1..n |-> NewParameter(Names[k], ks[k], fill)] :
                         ks \in [1..n -> ParamKinds], fill \in fills } :
                     n \in 0..MaxParams } :
        TrainableSize(pd) <= MaxLen }

\* The flat arrays of length n an optimizer or a caller may pass.
Vectors(n) == SeqsOver(Values, n) \cup {Ramp(n)}

\* The gradients a backward pass may compute, as a flat array of length n.
Gradients(n) == {Ramp(n), BigRamp(n)}

\* The points an optimizer started at x0 may propose.
Proposals(n, x0) == {x0, Ramp(n), BigRamp(n)}

\* Arrays of a wrong length: set_values_from_array reads only their length.
WrongVectors(n) ==
    { [j \in 1..m |-> 1] : m \in {n - 1, n + 1} }

(***************************************************************************)
(* The converter used through its interface: construction, then any        *)
(* sequence of its three methods, of backward passes and of changes of     *)
(* parameter values made by the caller.                                    *)
(***************************************************************************)
InitWith(fills, start) ==
    /\ params \in Collections(fills)
    /\ params0 = params
    /\ conv = NoConverter
    /\ pc = start
    /\ op = "none"
    /\ arg = <<>>
    /\ ret = <<>>
    /\ err = "none"
    /\ written = NoArray
    /\ calls = 0
    /\ best = <<>>
    /\ x_opt = NoArray
    /\ valuesFor = 0
    /\ gradFor = 0

Init == InitWith({0}, "new")

RunVarsUnchanged == UNCHANGED <<params0, calls, best, x_opt, valuesFor, gradFor>>

\* dict_to_array = ParameterToArrayConverter(param_dict)
Construct ==
    /\ pc = "new"
    /\ LET c == NewConverter(params)
       IN  /\ conv' = c.self
           /\ err' = c.raised
           /\ pc' = IF c.raised = "none" THEN "ready" ELSE "raised"
    /\ op' = "construct"
    /\ arg' = <<>>
    /\ ret' = <<>>
    /\ UNCHANGED <<params, written>>
    /\ RunVarsUnchanged

\* dict_to_array.set_values_from_array(x)
SetValues(x) ==
    /\ pc = "ready"
    /\ LET r == set_values_from_array(params, conv, x)
       IN  /\ params' = r.pd
           /\ err' = r.raised
           /\ written' = IF r.raised = "none" THEN Some(x) ELSE written
    /\ op' = "set_values"
    /\ arg' = x
    /\ ret' = <<>>
    /\ UNCHANGED <<conv, pc>>
    /\ RunVarsUnchanged

\* dict_to_array.extract_parameter_values_as_array()
ExtractValues ==
    /\ pc = "ready"
    /\ ret' = extract_parameter_values_as_array(params, conv)
    /\ op' = "extract_values"
    /\ arg' = <<>>
    /\ err' = "none"
    /\ UNCHANGED <<params, conv, pc, written>>
    /\ RunVarsUnchanged

\* dict_to_array.extract_parameter_gradients_as_array()
ExtractGradients ==
    /\ pc = "ready"
    /\ ret' = extract_parameter_gradients_as_array(params, conv)
    /\ op' = "extract_gradients"
    /\ arg' = <<>>
    /\ err' = "none"
    /\ UNCHANGED <<params, conv, pc, written>>
    /\ RunVarsUnchanged

\* The gradient buffers after a backward pass that computed g (a flat
\* array over the trainable parameters, in iteration order): each buffer
\* holds its part of g in the parameter's dtype.
RECURSIVE BackwardLoop(_, _, _, _)
BackwardLoop(pd, g, k, i) ==
    IF k > Len(pd) THEN pd
    ELSE IF ~IsTrainable(pd[k]) THEN BackwardLoop(pd, g, k + 1, i)
    ELSE LET n == Size(pd[k].shape)
         IN  BackwardLoop(
                 [pd EXCEPT ![k].grad = AsTypeSeq(Slice(g, i, i + n), pd[k].dtype)],
                 g, k + 1, i + n)

\* The caller runs a backward pass: loss_for_gradient.backward()
Backward(g) ==
    /\ pc = "ready"
    /\ params' = BackwardLoop(params, g, 1, 0)
    /\ op' = "backward"
    /\ arg' = <<>>
    /\ ret' = <<>>
    /\ err' = "none"
    /\ UNCHANGED <<conv, pc, written>>
    /\ RunVarsUnchanged

\* The caller sets every element of the k-th parameter, trainable or fixed,
\* to fill: param_dict[key].set_data(mx.nd.full(shape, fill, dtype, ctx)).
ExternalSetData(k, fill) ==
    /\ pc = "ready"
    /\ params' = [params EXCEPT ![k] =
                     SetData(@, Reshape(NDArrayOf([j \in 1..Size(@.shape) |-> fill],
                                                  @.dtype, @.ctx),
                                        @.shape))]
    /\ params' # params
    /\ written' = NoArray
    /\ op' = "set_data"
    /\ arg' = <<>>
    /\ ret' = <<>>
    /\ err' = "none"
    /\ UNCHANGED <<conv, pc>>
    /\ RunVarsUnchanged

\* The calls a caller can make with the arrays and values explored.
CallSetValues ==
    /\ pc = "ready"
    /\ \E x \in Vectors(conv.array_length) \cup WrongVectors(conv.array_length) :
           SetValues(x)

CallBackward ==
    /\ pc = "ready"
    /\ \E g \in Gradients(conv.array_length) : Backward(g)

CallExternalSetData ==
    /\ pc = "ready"
    /\ \E k \in 1..Len(params) : \E fill \in Values : ExternalSetData(k, fill)

Next ==
    \/ Construct
    \/ CallSetValues
    \/ ExtractValues
    \/ ExtractGradients
    \/ CallBackward
    \/ CallExternalSetData

Spec == Init /\ [][Next]_vars

(***************************************************************************)
(* BatchInferenceLoopLBFGS.run.  The optimizer (scipy's fmin_l_bfgs_b) is  *)
(* a caller of f_df: it starts at x0, calls f_df at points of its choice,  *)
(* one call at a time, keeps a best point among x0 and the points it       *)
(* evaluated, and returns it.                                              *)
(***************************************************************************)
InitRun == InitWith({0, 2^24 + 1}, "run")

\* dict_to_array = ParameterToArrayConverter(param_dict)
RunConstruct ==
    /\ pc = "run"
    /\ LET c == NewConverter(params)
       IN  /\ conv' = c.self
           /\ err' = c.raised
           /\ pc' = IF c.raised = "none" THEN "x0" ELSE "raised"
    /\ op' = "construct"
    /\ UNCHANGED <<params, params0, arg, ret, written, calls, best, x_opt,
                   valuesFor, gradFor>>

\* x0 = dict_to_array.extract_parameter_values_as_array(), handed to
\* fmin_l_bfgs_b as its starting point.
RunX0 ==
    /\ pc = "x0"
    /\ ret' = extract_parameter_values_as_array(params, conv)
    /\ best' = ret'
    /\ op' = "extract_values"
    /\ pc' = "optimizer"
    /\ UNCHANGED <<params, params0, conv, arg, err, written, calls, x_opt,
                   valuesFor, gradFor>>

\* The optimizer calls f_df(x).
OptimizerCalls(x) ==
    /\ pc = "optimizer"
    /\ calls < MaxCalls
    /\ calls' = calls + 1
    /\ arg' = x
    /\ ret' = <<>>
    /\ op' = "f_df"
    /\ pc' = "f_df_set"
    /\ UNCHANGED <<params, params0, conv, err, written, best, x_opt,
                   valuesFor, gradFor>>

OptimizerProposes ==
    /\ pc = "optimizer"
    /\ \E x \in Proposals(conv.array_length, best) : OptimizerCalls(x)

\* f_df: dict_to_array.set_values_from_array(x)
FdfSetValues ==
    /\ pc = "f_df_set"
    /\ LET r == set_values_from_array(params, conv, arg)
       IN  /\ params' = r.pd
           /\ err' = r.raised
           /\ written' = IF r.raised = "none" THEN Some(arg) ELSE written
           /\ valuesFor' = IF r.raised = "none" THEN calls ELSE valuesFor
           /\ pc' = IF r.raised = "none" THEN "f_df_backward" ELSE "raised"
    /\ op' = "set_values"
    /\ UNCHANGED <<params0, conv, arg, ret, calls, best, x_opt, gradFor>>

\* Mutant of FdfBackward: f_df goes on to read the gradients without a
\* backward pass.
FdfBackwardSkipped(g) ==
    /\ pc = "f_df_backward"
    /\ op' = "backward"
    /\ pc' = "f_df_extract"
    /\ UNCHANGED <<params, params0, conv, arg, ret, err, written, calls, best, x_opt,
                   valuesFor, gradFor>>

\* f_df: the forward computation and loss_for_gradient.backward() under
\* autograd.record(), g being the gradient of the objective at the
\* installed values.
FdfBackward(g) ==
    /\ pc = "f_df_backward"
    /\ params' = BackwardLoop(params, g, 1, 0)
    /\ gradFor' = calls
    /\ op' = "backward"
    /\ pc' = "f_df_extract"
    /\ UNCHANGED <<params0, conv, arg, ret, err, written, calls, best, x_opt,
                   valuesFor>>

FdfForwardBackward ==
    /\ pc = "f_df_backward"
    /\ \E g \in Gradients(conv.array_length) : FdfBackward(g)

\* f_df: return ..., extract_parameter_gradients_as_array().astype('float64')
FdfReturn ==
    /\ pc = "f_df_extract"
    /\ ret' = AsTypeSeq(extract_parameter_gradients_as_array(params, conv), "float64")
    /\ op' = "extract_gradients"
    /\ pc' = "f_df_returned"
    /\ UNCHANGED <<params, params0, conv, arg, err, written, calls, best, x_opt,
                   valuesFor, gradFor>>

\* The optimizer takes (f, g) and keeps its best point or moves it to x.
OptimizerConsumes(accept) ==
    /\ pc = "f_df_returned"
    /\ best' = IF accept THEN arg ELSE best
    /\ pc' = "optimizer"
    /\ UNCHANGED <<params, params0, conv, op, arg, ret, err, written, calls, x_opt,
                   valuesFor, gradFor>>

OptimizerStep ==
    /\ pc = "f_df_returned"
    /\ \E accept \in BOOLEAN : OptimizerConsumes(accept)

\* Mutant of OptimizerReturns: run installs the returned point.
OptimizerReturnsAndRunWritesBack ==
    /\ pc = "optimizer"
    /\ x_opt' = Some(best)
    /\ params' = set_values_from_array(params, conv, best).pd
    /\ op' = "return"
    /\ pc' = "done"
    /\ UNCHANGED <<params0, conv, arg, ret, err, written, calls, best,
                   valuesFor, gradFor>>

\* x_opt, f_opt, _ = fmin_l_bfgs_b(...): the optimizer returns and run ends.
OptimizerReturns ==
    /\ pc = "optimizer"
    /\ x_opt' = Some(best)
    /\ op' = "return"
    /\ pc' = "done"
    /\ UNCHANGED <<params, params0, conv, arg, ret, err, written, calls, best,
                   valuesFor, gradFor>>

NextRun ==
    \/ RunConstruct
    \/ RunX0
    \/ OptimizerProposes
    \/ FdfSetValues
    \/ FdfForwardBackward
    \/ FdfReturn
    \/ OptimizerStep
    \/ OptimizerReturns

SpecRun == InitRun /\ [][NextRun]_vars

(***************************************************************************)
(* What the claims are stated with: the trainable parameters of a          *)
(* collection read directly, in iteration order, without the converter.    *)
(***************************************************************************)
RECURSIVE FlatValues(_)
FlatValues(pd) ==
    IF pd = <<>> THEN <<>>
    ELSE (IF Head(pd).grad_req = "null" THEN <<>> ELSE Head(pd).data)
         \o FlatValues(Tail(pd))

RECURSIVE FlatGradients(_)
FlatGradients(pd) ==
    IF pd = <<>> THEN <<>>
    ELSE (IF Head(pd).grad_req = "null" THEN <<>> ELSE Head(pd).grad)
         \o FlatGradients(Tail(pd))

\* The dtype of the parameter each flat element belongs to.
RECURSIVE FlatTypes(_)
FlatTypes(pd) ==
    IF pd = <<>> THEN <<>>
    ELSE (IF Head(pd).grad_req = "null" THEN <<>>
          ELSE [j \in 1..Len(Head(pd).data) |-> Head(pd).dtype])
         \o FlatTypes(Tail(pd))

NotFixed(val) == val.grad_req # "null"
TrainableOf(pd) == SelectSeq(pd, NotFixed)

RECURSIVE SumSizes(_)
SumSizes(pd) == IF pd = <<>> THEN 0 ELSE Size(Head(pd).shape) + SumSizes(Tail(pd))

\* v is unchanged by a conversion to the type of the parameter each element
\* goes to followed by a conversion to float32.
SurvivesConversion(v, pd) ==
    /\ Len(v) = Len(FlatTypes(pd))
    /\ \A j \in 1..Len(v) : AsType(AsType(v[j], FlatTypes(pd)[j]), "float32") = v[j]

ParamOf(i) == params[Lookup(params, conv.names[i])]

(***************************************************************************)
(* C1.  Round trip.                                                        *)
(***************************************************************************)
\* C1 as stated: extract_parameter_values_as_array() called after
\* set_values_from_array(v), with no other change of the values in between,
\* returns v element by element, for every v of length array_length.
C1_RoundTripAnyVector ==
    (op = "extract_values" /\ written # NoArray) => ret = written[1]

\* C1 amended: the round trip returns v when every element of v survives
\* the conversion to its record's numeric type and then to float32, the
\* type of the buffer extract_parameter_values_as_array fills.
C1_RoundTripOfConvertibleVector ==
    (op = "extract_values" /\ written # NoArray /\ SurvivesConversion(written[1], params))
        => ret = written[1]

C1_Witness ==
    /\ op = "extract_values"
    /\ Len(conv.names) = 2
    /\ written = Some(Ramp(3))
    /\ ret = Ramp(3)

(***************************************************************************)
(* C2.  Length mismatch.                                                   *)
(***************************************************************************)
\* C2: set_values_from_array called with an array whose length differs from
\* array_length raises ValueError and leaves every parameter, trainable or
\* fixed, as it was.
C2_LengthMismatchRaisesBeforeAnyWrite ==
    [][(op' = "set_values" /\ Len(arg') # conv.array_length)
           => (err' = "ValueError" /\ params' = params)]_vars

C2_Witness ==
    /\ op = "set_values"
    /\ err = "ValueError"
    /\ Len(arg) = conv.array_length + 1
    /\ written # NoArray

(***************************************************************************)
(* C3.  Fixed parameters.                                                  *)
(***************************************************************************)
\* C3: a parameter with grad_req 'null' is not among the converter's
\* records, adds nothing to array_length nor to the length of either
\* extracted array, and is left unchanged by every set_values_from_array.
C3_FixedParametersInvisible ==
    /\ [](conv.built =>
            /\ \A k \in 1..Len(params) :
                   params[k].grad_req = "null" =>
                       \A i \in 1..Len(conv.names) : conv.names[i] # params[k].name
            /\ conv.array_length = SumSizes(TrainableOf(params))
            /\ op \in {"extract_values", "extract_gradients"}
                   => Len(ret) = SumSizes(TrainableOf(params)))
    /\ [][op' = "set_values" =>
            \A k \in 1..Len(params) :
                params[k].grad_req = "null" => params'[k] = params[k]]_vars

C3_Witness ==
    /\ op = "set_values"
    /\ err = "none"
    /\ Len(params) = 3
    /\ params[1].grad_req = "null"
    /\ params[1].data = <<2^24, 2^24, 2^24>>
    /\ params[3].grad_req = "null"
    /\ conv.array_length = 1

(***************************************************************************)
(* C4.  Unpack semantics.                                                  *)
(***************************************************************************)
Cycled(k) ==
    /\ params[k].shape = params0[k].shape
    /\ params[k].dtype = params0[k].dtype
    /\ params[k].ctx = params0[k].ctx

\* C4 as stated: after a successful set_values_from_array(v) the parameter
\* of record i holds exactly v[i_start[i]:i_end[i]], with the record's shape,
\* dtype and context; shape, dtype and context are those of construction.
C4_UnpackHoldsExactElements ==
    /\ (op = "set_values" /\ err = "none") =>
           \A i \in 1..Len(conv.names) :
               /\ ParamOf(i).data = Slice(arg, conv.i_start[i], conv.i_end[i])
               /\ ParamOf(i).shape = conv.shapes[i]
               /\ ParamOf(i).dtype = conv.dtypes[i]
               /\ ParamOf(i).ctx = conv.contexts[i]
    /\ conv.built => \A k \in 1..Len(params) : Cycled(k)

\* C4 amended: the parameter of record i holds the elements
\* v[i_start[i]:i_end[i]] converted to the record's dtype, in order, with the
\* record's shape, dtype and context; shape, dtype and context are those of
\* construction.
C4_UnpackHoldsConvertedElements ==
    /\ (op = "set_values" /\ err = "none") =>
           \A i \in 1..Len(conv.names) :
               /\ ParamOf(i).data =
                      AsTypeSeq(Slice(arg, conv.i_start[i], conv.i_end[i]), conv.dtypes[i])
               /\ ParamOf(i).shape = conv.shapes[i]
               /\ ParamOf(i).dtype = conv.dtypes[i]
               /\ ParamOf(i).ctx = conv.contexts[i]
    /\ conv.built => \A k \in 1..Len(params) : Cycled(k)

\* a: (2,) float32, b: (1, 1) float64, c: (3,) fixed and v = [1, 2, 3].
C4_Witness ==
    /\ op = "set_values"
    /\ err = "none"
    /\ arg = <<1, 2, 3>>
    /\ Len(params) = 3
    /\ params[1].data = <<1, 2>> /\ params[1].shape = <<2>>
    /\ params[2].data = <<3>> /\ params[2].shape = <<1, 1>>
    /\ params[3].grad_req = "null" /\ params[3].data = <<0, 0, 0>>

(***************************************************************************)
(* C5.  Construction.                                                      *)
(***************************************************************************)
\* C5: construction succeeds for every collection, also one without any
\* trainable parameter, and array_length is the sum of the element counts
\* of the trainable parameters.
C5_ConstructionNeverFails ==
    op = "construct" =>
        /\ err = "none"
        /\ conv.built
        /\ conv.array_length = SumSizes(TrainableOf(params))

(***************************************************************************)
(* C6.  Reads are pure.                                                    *)
(***************************************************************************)
\* C6: the two extract methods change no value and no gradient buffer of
\* the collection, each returns an array of length array_length, and
\* extract_parameter_values_as_array called twice in a row returns the same
\* array twice.
C6_ReadsArePure ==
    [][op' \in {"extract_values", "extract_gradients"} =>
           /\ params' = params
           /\ Len(ret') = conv.array_length
           /\ (op = "extract_values" /\ op' = "extract_values") => ret' = ret]_vars

C6_Witness ==
    /\ op = "extract_gradients"
    /\ conv.array_length = 3
    /\ Len(ret) = 3
    /\ ret[3] # 0

(***************************************************************************)
(* C7.  Gradient packing.                                                  *)
(***************************************************************************)
\* C7 as stated: in the array extract_parameter_gradients_as_array returns,
\* the segment [i_start[i], i_end[i]) holds the content of the gradient
\* buffer of the parameter of record i.
C7_GradientSegmentsHoldBuffers ==
    op = "extract_gradients" =>
        \A i \in 1..Len(conv.names) :
            Slice(ret, conv.i_start[i], conv.i_end[i]) = ParamOf(i).grad

\* C7 amended: the segment [i_start[i], i_end[i]) holds the content of the
\* gradient buffer of the parameter of record i converted to float32, the
\* records and offsets being those extract_parameter_values_as_array uses.
C7_GradientSegmentsHoldBuffersAsFloat32 ==
    op = "extract_gradients" =>
        /\ Len(ret) = conv.array_length
        /\ \A i \in 1..Len(conv.names) :
               Slice(ret, conv.i_start[i], conv.i_end[i])
                   = AsTypeSeq(ParamOf(i).grad, "float32")

\* Gradients a -> [1, 2], b -> [[3]] give [1, 2, 3].
C7_Witness ==
    /\ op = "extract_gradients"
    /\ Len(conv.names) = 2
    /\ ParamOf(1).grad = <<1, 2>>
    /\ ParamOf(2).grad = <<3>>
    /\ ParamOf(1).data # ParamOf(1).grad
    /\ ret = <<1, 2, 3>>

(***************************************************************************)
(* C8.  Layout.                                                            *)
(***************************************************************************)
WellFormedLayout ==
    LET tr == TrainableOf(params0)
        n  == Len(tr)
    IN  /\ Len(conv.names) = n /\ Len(conv.i_start) = n /\ Len(conv.i_end) = n
        /\ Len(conv.shapes) = n /\ Len(conv.dtypes) = n /\ Len(conv.contexts) = n
        /\ \A i \in 1..n :
               /\ conv.names[i] = tr[i].name
               /\ conv.shapes[i] = tr[i].shape
               /\ conv.dtypes[i] = tr[i].dtype
               /\ conv.contexts[i] = tr[i].ctx
               /\ conv.i_start[i] = (IF i = 1 THEN 0 ELSE conv.i_end[i - 1])
               /\ conv.i_end[i] - conv.i_start[i] = Size(conv.shapes[i])
        /\ conv.array_length = SumSizes(tr)

\* C8: in every state after construction the converter's records are those
\* of the trainable parameters at construction, in iteration order, the
\* first offset is 0, each later one is the previous record's end,
\* i_end - i_start is the product of the shape, and no field of the
\* converter ever changes.
C8_LayoutInvariant ==
    /\ [](conv.built => WellFormedLayout)
    /\ [][conv.built => conv' = conv]_vars

C8_Witness ==
    /\ conv.built
    /\ op = "set_data"
    /\ Len(params) = 3
    /\ params[1].grad_req = "null"
    /\ conv.i_start = <<0, 2>>
    /\ conv.i_end = <<2, 3>>
    /\ params # params0

(***************************************************************************)
(* C9.  The callback protocol.                                             *)
(***************************************************************************)
\* C9: in every f_df(x) the values are installed from x, then the backward
\* pass runs on them, then the gradients are read; no invocation starts
\* before the one before it has returned; the gradients f_df returns were
\* filled by the backward pass of the same invocation.
C9_CallbackProtocol ==
    /\ pc = "f_df_set" => (valuesFor < calls /\ gradFor < calls)
    /\ pc = "f_df_backward" => (valuesFor = calls /\ gradFor < calls /\ written = Some(arg))
    /\ pc = "f_df_extract" => (valuesFor = calls /\ gradFor = calls /\ written = Some(arg))
    /\ pc = "f_df_returned" =>
           /\ valuesFor = calls /\ gradFor = calls /\ written = Some(arg)
           /\ ret = AsTypeSeq(FlatGradients(params), "float32")
    /\ pc \in {"optimizer", "done"} => (valuesFor = calls /\ gradFor = calls)

C9_Witness ==
    /\ pc = "f_df_returned"
    /\ calls = 2
    /\ gradFor = 2
    /\ arg = Ramp(3)
    /\ ret = <<2^24, 2^24 + 2, 2^24 + 4>>

(***************************************************************************)
(* C10.  The parameters when run returns.                                  *)
(***************************************************************************)
\* C10 as stated: when run returns, the trainable parameters hold the last
\* flat array the optimizer passed to f_df, or their initial values if f_df
\* was never called; x_opt is not written back.
C10_FinalValuesAreLastPoint ==
    pc = "done" =>
        IF calls = 0 THEN params = params0
        ELSE FlatValues(params) = arg

\* C10 amended: when run returns, the trainable parameters hold the
\* elements of the last flat array passed to f_df, each converted to its
\* record's dtype (or everything is as at the start if f_df was never
\* called), and the fixed parameters are as at the start; x_opt is not
\* written back.
C10_FinalValuesAreLastPointConverted ==
    pc = "done" =>
        IF calls = 0 THEN params = params0
        ELSE /\ Len(arg) = Len(FlatTypes(params))
             /\ FlatValues(params) =
                    [j \in 1..Len(arg) |-> AsType(arg[j], FlatTypes(params)[j])]
             /\ \A k \in 1..Len(params) :
                    params[k].grad_req = "null" => params[k] = params0[k]

C10_Witness ==
    /\ pc = "done"
    /\ calls = 2
    /\ x_opt = Some(BigRamp(3))
    /\ arg = Ramp(3)
    /\ FlatValues(params) = Ramp(3)

====
